---------------------------- MODULE Spec2Model ----------------------------
(***************************************************************************)
(* Fresnel biprism simulator: the Matplotlib front-end (src/main.py,       *)
(* FresnelBiprismSim) and the Streamlit front-end (src/app.py,             *)
(* FresnelBiprismSimCore plus the page script).                            *)
(*                                                                         *)
(* Python floats are IEEE-754 binary64 values.  They are modelled exactly: *)
(* a float is a sign, an odd integer significand of at most 53 bits and a  *)
(* binary exponent, and every arithmetic operation rounds the exact result *)
(* to nearest, ties to even.  Significands do not fit TLC's integers, so   *)
(* they are kept as little-endian sequences of 15-bit limbs.  Results      *)
(* beyond the range overflow to an infinity, results in the subnormal      *)
(* range round to fewer bits, and NaN and the infinities are values.  The  *)
(* sign of a zero and of a NaN is not kept.                                *)
(***************************************************************************)
EXTENDS Integers, Sequences, FiniteSets, TLC

(***************************************************************************)
(* Natural numbers of any size: little-endian limbs, no leading zero limb. *)
(***************************************************************************)
B == 2^15

RECURSIVE IntBitLen(_)
IntBitLen(n) == IF n = 0 THEN 0 ELSE 1 + IntBitLen(n \div 2)

\* the number of bits of a limb
LimbBits == IntBitLen(B - 1)

Max(a, b) == IF a >= b THEN a ELSE b
Min(a, b) == IF a <= b THEN a ELSE b

Limb(a, i) == IF i <= Len(a) THEN a[i] ELSE 0

RECURSIVE BTrim(_)
BTrim(a) ==
    IF a = <<>> THEN <<>>
    ELSE IF a[Len(a)] = 0 THEN BTrim(SubSeq(a, 1, Len(a) - 1)) ELSE a

RECURSIVE BFromInt(_)
BFromInt(n) == IF n = 0 THEN <<>> ELSE <<n % B>> \o BFromInt(n \div B)

RECURSIVE BCmpAt(_, _, _)
BCmpAt(a, b, i) ==
    IF i = 0 THEN 0
    ELSE IF a[i] > b[i] THEN 1
    ELSE IF a[i] < b[i] THEN -1
    ELSE BCmpAt(a, b, i - 1)

BCmp(a, b) ==
    IF Len(a) > Len(b) THEN 1
    ELSE IF Len(a) < Len(b) THEN -1
    ELSE BCmpAt(a, b, Len(a))

\* the loops below build their result limb by limb and find their position in the
\* length of what they have built
RECURSIVE BAddLoop(_, _, _, _, _)
BAddLoop(a, b, n, c, acc) ==
    IF Len(acc) = n THEN acc
    ELSE LET s == Limb(a, Len(acc) + 1) + Limb(b, Len(acc) + 1) + c
         IN  BAddLoop(a, b, n, s \div B, Append(acc, s % B))

BAdd(a, b) == BTrim(BAddLoop(a, b, Max(Len(a), Len(b)) + 1, 0, <<>>))

RECURSIVE BSubLoop(_, _, _, _)
BSubLoop(a, b, c, acc) ==
    IF Len(acc) = Len(a) THEN acc
    ELSE LET s == a[Len(acc) + 1] - Limb(b, Len(acc) + 1) - c
         IN  IF s < 0 THEN BSubLoop(a, b, 1, Append(acc, s + B))
             ELSE BSubLoop(a, b, 0, Append(acc, s))

\* a - b for a >= b
BSub(a, b) == BTrim(BSubLoop(a, b, 0, <<>>))

RECURSIVE BMulSmallLoop(_, _, _, _)
BMulSmallLoop(a, k, c, acc) ==
    IF Len(acc) = Len(a) THEN (IF c = 0 THEN acc ELSE Append(acc, c))
    ELSE LET s == a[Len(acc) + 1] * k + c
         IN  BMulSmallLoop(a, k, s \div B, Append(acc, s % B))

\* a * k for 0 <= k < B
BMulSmall(a, k) == IF k = 0 THEN <<>> ELSE BMulSmallLoop(a, k, 0, <<>>)

BShlLimbs(a, n) == IF a = <<>> THEN <<>> ELSE [i \in 1..n |-> 0] \o a

RECURSIVE BMulLoop(_, _, _)
\* st.acc is a times the limbs of b below st.j
BMulLoop(a, b, st) ==
    IF st.j > Len(b) THEN st.acc
    ELSE BMulLoop(a, b, [j |-> st.j + 1,
                         acc |-> BAdd(st.acc, BShlLimbs(BMulSmall(a, b[st.j]), st.j - 1))])

BMul(a, b) == BMulLoop(a, b, [j |-> 1, acc |-> <<>>])

\* a * 2^n
BShl(a, n) == BShlLimbs(BMulSmall(a, 2^(n % LimbBits)), n \div LimbBits)

RECURSIVE BDivSmallLoop(_, _, _, _)
\* floor(a / k) for 0 < k <= B, from the top limb down
BDivSmallLoop(a, k, r, acc) ==
    IF Len(acc) = Len(a) THEN acc
    ELSE LET cur == r * B + a[Len(a) - Len(acc)]
         IN  BDivSmallLoop(a, k, cur % k, <<cur \div k>> \o acc)

\* floor(a / 2^n)
BShr(a, n) ==
    LET w == n \div LimbBits
    IN  IF w >= Len(a) THEN <<>>
        ELSE BTrim(BDivSmallLoop(SubSeq(a, w + 1, Len(a)), 2^(n % LimbBits), 0, <<>>))


BBitLen(a) == IF a = <<>> THEN 0 ELSE LimbBits * (Len(a) - 1) + IntBitLen(a[Len(a)])

BBit(a, i) == (Limb(a, i \div LimbBits + 1) \div 2^(i % LimbBits)) % 2

RECURSIVE IntTrailingZeros(_)
IntTrailingZeros(n) == IF n % 2 = 1 THEN 0 ELSE 1 + IntTrailingZeros(n \div 2)

RECURSIVE BTrailingZeros(_)
\* the number of trailing zero bits of a /= 0
BTrailingZeros(a) ==
    IF a[1] = 0 THEN LimbBits + BTrailingZeros(Tail(a)) ELSE IntTrailingZeros(a[1])

\* long division in base B by a divisor d whose top limb is B/2 or more: the digit
\* estimated from the top limbs is the quotient digit or up to 2 above it
BDivDigit(r2, d, qhat) ==
    IF BCmp(BMulSmall(d, qhat), r2) <= 0 THEN qhat
    ELSE IF BCmp(BMulSmall(d, qhat - 1), r2) <= 0 THEN qhat - 1
    ELSE qhat - 2

BDivPut(r2, d, st, digit) ==
    [q |-> <<digit>> \o st.q, r |-> BSub(r2, BMulSmall(d, digit)), i |-> st.i - 1]

\* one digit of the quotient: r2 is the remainder so far with the next limb of
\* the dividend brought down
BDivLimb(r2, d, st) ==
    BDivPut(r2, d, st,
            BDivDigit(r2, d, Min((Limb(r2, Len(d) + 1) * B + Limb(r2, Len(d))) \div d[Len(d)],
                                 B - 1)))

RECURSIVE BDivModLoop(_, _, _)
\* limbs st.i .. 1 of a are still to be brought down
BDivModLoop(a, d, st) ==
    IF st.i = 0 THEN st
    ELSE BDivModLoop(a, d, BDivLimb(BTrim(<<a[st.i]>> \o st.r), d, st))

BDivOut(st, s) == [q |-> BTrim(st.q), r |-> BShr(st.r, s)]

BDivModNorm(an, dn, s) ==
    BDivOut(BDivModLoop(an, dn, [q |-> <<>>, r |-> <<>>, i |-> Len(an)]), s)

BDivModShift(a, d, s) == BDivModNorm(BShl(a, s), BShl(d, s), s)

\* quotient and remainder of a by d /= 0
BDivMod(a, d) == BDivModShift(a, d, LimbBits - IntBitLen(d[Len(d)]))

RECURSIVE BPow10Loop(_)
\* st.acc * 10^st.n
BPow10Loop(st) ==
    IF st.n < 10 THEN BMul(st.acc, BFromInt(10^st.n))
    ELSE BPow10Loop([n |-> st.n - 9, acc |-> BMul(st.acc, BFromInt(10^9))])

BPow10(n) == BPow10Loop([n |-> n, acc |-> <<1>>])

(***************************************************************************)
(* binary64.  A finite float is [c |-> "fin", s, m, e]: (-1)^s * m * 2^e,  *)
(* m odd and below 2^53, EMin <= e, m * 2^e < 2^EMax (canonical: equal     *)
(* values are equal records); zero is m = <<>>.  The infinities and NaN    *)
(* are the records of class "inf" and "nan".                               *)
(***************************************************************************)
Precision == 53

\* the exponent of the least subnormal; 2^EMax is the least power that overflows
EMin == 3 - 2^10 - Precision
EMax == 2^10

FZero == [c |-> "fin", s |-> 0, m |-> <<>>, e |-> 0]
NaN == [c |-> "nan", s |-> 0, m |-> <<>>, e |-> 0]
Inf(s) == [c |-> "inf", s |-> s, m |-> <<>>, e |-> 0]

IsNaN(a) == a.c = "nan"
IsInf(a) == a.c = "inf"
IsZero(a) == a.c = "fin" /\ a.m = <<>>

FCanon(s, M, e) ==
    IF M = <<>> THEN FZero
    ELSE LET tz == BTrailingZeros(M)
         IN  [c |-> "fin", s |-> s, m |-> BShr(M, tz), e |-> e + tz]

\* a rounded value of 2^EMax or more is an infinity
Overflowed(r) == IF r.m # <<>> /\ BBitLen(r.m) + r.e > EMax THEN Inf(r.s) ELSE r

\* M / 2^k to the nearest integer, ties to even, from q = floor(M / 2^k), k >= 1
RoundHalfEven(M, k, q) ==
    LET c == BCmp(BSub(M, BShl(q, k)), BShl(<<1>>, k - 1))
    IN  IF c > 0 \/ (c = 0 /\ BBit(q, 0) = 1) THEN BAdd(q, <<1>>) ELSE q

RoundShift(M, k) == RoundHalfEven(M, k, BShr(M, k))

\* (-1)^s * M * 2^e with the k low bits of M rounded away
RoundAt(s, M, e, k) ==
    Overflowed(FCanon(s, IF k <= 0 THEN M ELSE RoundShift(M, k),
                         IF k <= 0 THEN e ELSE e + k))

\* (-1)^s * M * 2^e rounded to nearest, ties to even, M of L bits: to
\* Precision bits, to fewer in the subnormal range
RoundBits(s, M, e, L) == RoundAt(s, M, e, Max(L - Precision, EMin - e))

RoundBig(s, M, e) == RoundBits(s, M, e, BBitLen(M))

\* the quotient with a sticky bit for the remainder, rounded
RoundSticky(s, qr, e) ==
    RoundBig(s, BAdd(BMulSmall(qr.q, 2), IF qr.r = <<>> THEN <<>> ELSE <<1>>), e)

RoundQuotient(s, N, D, e, k) == RoundSticky(s, BDivMod(BShl(N, k), D), e - k - 1)

\* (-1)^s * (N / D) * 2^e rounded to nearest, ties to even (N, D /= 0)
RoundRatio(s, N, D, e) ==
    RoundQuotient(s, N, D, e, Max(0, Precision + 2 + BBitLen(D) - BBitLen(N)))

FAbs(a) == [a EXCEPT !.s = 0]

\* the sum of (-1)^sa * A * 2^e and (-1)^sb * Bb * 2^e
FAddAligned(sa, A, sb, Bb, e) ==
    LET c == BCmp(A, Bb)
    IN  IF sa # sb /\ c = 0 THEN FZero
        ELSE RoundBig(IF sa = sb \/ c > 0 THEN sa ELSE sb,
                      IF sa = sb THEN BAdd(A, Bb)
                      ELSE IF c > 0 THEN BSub(A, Bb) ELSE BSub(Bb, A),
                      e)

FAdd(a, b) ==
    IF IsNaN(a) \/ IsNaN(b) THEN NaN
    ELSE IF IsInf(a) THEN (IF IsInf(b) /\ a.s # b.s THEN NaN ELSE a)
    ELSE IF IsInf(b) THEN b
    ELSE IF a.m = <<>> THEN b
    ELSE IF b.m = <<>> THEN a
    ELSE FAddAligned(a.s, BShl(a.m, a.e - Min(a.e, b.e)),
                     b.s, BShl(b.m, b.e - Min(a.e, b.e)), Min(a.e, b.e))

FSub(a, b) == FAdd(a, IF IsZero(b) \/ IsNaN(b) THEN b ELSE [b EXCEPT !.s = 1 - b.s])

FMul(a, b) ==
    IF IsNaN(a) \/ IsNaN(b) THEN NaN
    ELSE IF IsInf(a) \/ IsInf(b)
         THEN (IF IsZero(a) \/ IsZero(b) THEN NaN ELSE Inf((a.s + b.s) % 2))
    ELSE IF a.m = <<>> \/ b.m = <<>> THEN FZero
    ELSE RoundBig((a.s + b.s) % 2, BMul(a.m, b.m), a.e + b.e)

\* a / b for b /= 0: every divisor of the source is the constant 10.0 or is
\* guarded by abs(divisor) < 1e-9
FDiv(a, b) ==
    IF IsNaN(a) \/ IsNaN(b) THEN NaN
    ELSE IF IsInf(a) THEN (IF IsInf(b) THEN NaN ELSE Inf((a.s + b.s) % 2))
    ELSE IF IsInf(b) \/ a.m = <<>> THEN FZero
    ELSE RoundRatio((a.s + b.s) % 2, a.m, b.m, a.e - b.e)

\* -1, 0, 1 as a < b, a = b, a > b, neither of them NaN
FCmp(a, b) ==
    IF a = b THEN 0
    ELSE IF IsInf(a) THEN (IF a.s = 0 THEN 1 ELSE -1)
    ELSE IF IsInf(b) THEN (IF b.s = 0 THEN -1 ELSE 1)
    ELSE IF a.m = <<>> THEN (IF b.s = 0 THEN -1 ELSE 1)
    ELSE IF b.m = <<>> THEN (IF a.s = 0 THEN 1 ELSE -1)
    ELSE IF a.s # b.s THEN (IF a.s = 0 THEN 1 ELSE -1)
    ELSE LET e == Min(a.e, b.e)
             c == BCmp(BShl(a.m, a.e - e), BShl(b.m, b.e - e))
         IN  IF a.s = 0 THEN c ELSE -c

\* a < b, a <= b, a == b: every comparison with NaN is false
FLt(a, b) == ~IsNaN(a) /\ ~IsNaN(b) /\ FCmp(a, b) < 0
FLe(a, b) == ~IsNaN(a) /\ ~IsNaN(b) /\ FCmp(a, b) <= 0
FEq(a, b) == ~IsNaN(a) /\ a = b

\* the float nearest to (-1)^s * n * 10^x, n a natural number in limbs:
\* float(text) of a decimal text, a decimal literal
DecB(s, n, x) ==
    IF n = <<>> THEN FZero
    ELSE RoundRatio(s, BMul(n, BPow10(Max(x, 0))), BPow10(Max(-x, 0)), 0)

Dec(d, x) == DecB(IF d < 0 THEN 1 ELSE 0, BFromInt(IF d < 0 THEN -d ELSE d), x)

\* a text that float() accepts: a decimal d * 10^x, or one of the words
\* "nan", "inf", "-inf"; and the float that float(text) reads from it
Lit(d, x) ==
    [word |-> "", s |-> IF d < 0 THEN 1 ELSE 0,
     d |-> BFromInt(IF d < 0 THEN -d ELSE d), x |-> x]
\* a positive decimal text of more digits than an integer of the model holds: the
\* digits of hi followed by the nine digits of lo
Lit2(hi, lo, x) ==
    [word |-> "", s |-> 0, d |-> BAdd(BMul(BFromInt(hi), BPow10(9)), BFromInt(lo)), x |-> x]
Word(s, w) == [word |-> w, s |-> s, d |-> <<>>, x |-> 0]
LitValue(l) ==
    IF l.word = "nan" THEN NaN
    ELSE IF l.word = "inf" THEN Inf(l.s)
    ELSE DecB(l.s, l.d, l.x)

FixedOf(N, e) == IF e >= 0 THEN BShl(N, e) ELSE RoundShift(N, -e)

\* |a| * 10^k rounded to an integer, ties to even: the digits of f"{a:.kf}"
\* for a finite a
FixedDigits(a, k) == IF a.m = <<>> THEN <<>> ELSE FixedOf(BMul(a.m, BPow10(k)), a.e)

(***************************************************************************)
(* Parameters and the solver (_calculate_physics / calculate_physics).     *)
(***************************************************************************)
None == [none |-> TRUE]
EmptyDict == [k \in {} |-> None]

Keys == <<"x1", "x2", "x3", "P1", "P2", "x4", "x5", "slit_width">>
KeySet == {Keys[i] : i \in 1..Len(Keys)}

\* input_params_config: the 'val' of every key, as written in the source
input_params_config ==
    [x1 |-> Lit(100, -1), x2 |-> Lit(400, -1), x3 |-> Lit(1100, -1),
     P1 |-> Lit(0, -2), P2 |-> Lit(80, -2), x4 |-> Lit(500, -2),
     x5 |-> Lit(1594, -2), slit_width |-> Lit(5, -2)]

\* default_params = {key: config['val'] for key, config in input_params_config.items()}
default_params == [k \in KeySet |-> LitValue(input_params_config[k])]

\* p.get(key, d_p[key])
Get(p, key) == IF key \in DOMAIN p THEN p[key] ELSE default_params[key]

Eps9 == Dec(1, -9)
Eps15 == Dec(1, -15)
Ten == Dec(10, 0)

\* x1_cm .. b_slit_mm: the eight values the solver reads, float(p.get(key, d_p[key]))
Inputs(p) == [k \in KeySet |-> Get(p, k)]

\* check 1: x1_cm < x2_cm < x3_cm
OrderingOk(q) == FLt(q.x1, q.x2) /\ FLt(q.x2, q.x3)

\* check 2 fails when abs(P1_mm - P2_mm) < 1e-9
ImagesCoincide(q) == FLt(FAbs(FSub(q.P1, q.P2)), Eps9)

\* check 3 fails when x5_mm <= x4_mm
FringeReversed(q) == FLe(q.x5, q.x4)

\* check 4 fails when b_slit_mm <= 0
SlitNotPositive(q) == FLe(q.slit_width, FZero)

Failure(errs, notes) == [errs |-> errs, notes |-> notes, res |-> None]

\* a classification that tests the visible range first
PlausibilityVisibleFirst(wavelength_nm) ==
    IF FLe(Dec(380, 0), wavelength_nm) /\ FLe(wavelength_nm, Dec(780, 0)) THEN <<>>
    ELSE IF FLt(wavelength_nm, Dec(10000, 0)) THEN <<"not_visible">>
    ELSE <<"implausible">>

\* the advisory printed for the wavelength, if any
Plausibility(wavelength_nm) ==
    IF ~(FLt(Dec(1, 0), wavelength_nm) /\ FLt(wavelength_nm, Dec(10000, 0)))
    THEN <<"implausible">>
    ELSE IF ~(FLe(Dec(380, 0), wavelength_nm) /\ FLe(wavelength_nm, Dec(780, 0)))
    THEN <<"not_visible">>
    ELSE <<>>

\* the guard on the fringe spacing: delta_x_mm_calc <= 1e-9 is fatal
FringeSpacingTooSmall(delta_x_mm) == FLe(delta_x_mm, Eps9)

\* a results dictionary whose D_cm is left in millimetres
ResultsRecordRawD(u_cm, v_cm, D_mm, d_prime_mm, d_mm, delta_x_mm, wavelength_mm, b_slit_mm) ==
    [u_cm |-> u_cm, v_cm |-> v_cm, D_cm |-> D_mm,
     d_prime_mm |-> d_prime_mm, d_mm |-> d_mm, delta_x_mm |-> delta_x_mm,
     wavelength_nm |-> FMul(wavelength_mm, Dec(1, 6)),
     D_mm_plot |-> D_mm, d_mm_plot |-> d_mm, b_slit_mm_plot |-> b_slit_mm,
     lambda_mm_plot |-> wavelength_mm]

\* the results dictionary
ResultsRecord(u_cm, v_cm, D_mm, d_prime_mm, d_mm, delta_x_mm, wavelength_mm, b_slit_mm) ==
    [u_cm |-> u_cm, v_cm |-> v_cm, D_cm |-> FDiv(D_mm, Ten),
     d_prime_mm |-> d_prime_mm, d_mm |-> d_mm, delta_x_mm |-> delta_x_mm,
     wavelength_nm |-> FMul(wavelength_mm, Dec(1, 6)),
     D_mm_plot |-> D_mm, d_mm_plot |-> d_mm, b_slit_mm_plot |-> b_slit_mm,
     lambda_mm_plot |-> wavelength_mm]

\* an advisory for a separation below 1e-15 only
NegligibleBelowEps15(d_mm) == IF FLt(FAbs(d_mm), Eps15) THEN <<"negligible_d">> ELSE <<>>

\* the advisory printed for a virtual-source separation below 1e-9
NegligibleD(d_mm) == IF FLt(FAbs(d_mm), Eps9) THEN <<"negligible_d">> ELSE <<>>

\* a successful solve: the results with the advisories printed on the way
Success(warn_d, rec) ==
    [errs |-> <<>>, notes |-> warn_d \o Plausibility(rec.wavelength_nm), res |-> rec]

\* the guard on the fringe spacing, the wavelength and the results
PhysicsLambda(q, u_cm, v_cm, d_prime_mm, D_mm, d_mm, warn_d, delta_x_mm) ==
    IF FringeSpacingTooSmall(delta_x_mm) THEN Failure(<<"fringe_spacing">>, warn_d)
    ELSE Success(warn_d,
                 ResultsRecord(u_cm, v_cm, D_mm, d_prime_mm, d_mm, delta_x_mm,
                               FDiv(FMul(d_mm, delta_x_mm), D_mm), q.slit_width))

\* a fringe spacing that is the whole span of the ten fringes
PhysicsDeltaXRaw(q, u_cm, v_cm, d_prime_mm, D_mm, d_mm) ==
    PhysicsLambda(q, u_cm, v_cm, d_prime_mm, D_mm, d_mm, NegligibleD(d_mm),
                  FAbs(FSub(q.x5, q.x4)))

\* the advisory on d_mm_calc and delta_x_mm_calc
PhysicsDeltaX(q, u_cm, v_cm, d_prime_mm, D_mm, d_mm) ==
    PhysicsLambda(q, u_cm, v_cm, d_prime_mm, D_mm, d_mm, NegligibleD(d_mm),
                  FDiv(FAbs(FSub(q.x5, q.x4)), Ten))

\* the guards on v_mm and D_mm (ZeroDivisionError) and d_mm_calc
PhysicsD(q, u_cm, v_cm, d_prime_mm, u_mm, v_mm, D_mm) ==
    IF FLt(FAbs(v_mm), Eps9) THEN Failure(<<"v_zero">>, <<>>)
    ELSE IF FLt(FAbs(D_mm), Eps9) THEN Failure(<<"D_zero">>, <<>>)
    ELSE PhysicsDeltaX(q, u_cm, v_cm, d_prime_mm, D_mm, FMul(d_prime_mm, FDiv(u_mm, v_mm)))

\* d_prime_mm, u_mm, v_mm, D_mm
PhysicsMm(q, u_cm, v_cm) ==
    PhysicsD(q, u_cm, v_cm, FAbs(FSub(q.P2, q.P1)), FMul(u_cm, Ten), FMul(v_cm, Ten),
             FMul(FSub(q.x3, q.x1), Ten))

\* the computation after the four input checks, the same in both front-ends,
\* from u_cm and v_cm on
Physics(q) == PhysicsMm(q, FSub(q.x2, q.x1), FSub(q.x3, q.x2))

\* main.py: each failed check raises ValueError at once
MainChecks(q) ==
    IF ~OrderingOk(q) THEN <<"ordering">>
    ELSE IF ImagesCoincide(q) THEN <<"images">>
    ELSE IF FringeReversed(q) THEN <<"fringe">>
    ELSE IF SlitNotPositive(q) THEN <<"slit">>
    ELSE <<>>

\* app.py: every failed check appends to error_msgs; all are shown with st.error
AppChecks(q) ==
    (IF ~OrderingOk(q) THEN <<"ordering">> ELSE <<>>)
    \o (IF ImagesCoincide(q) THEN <<"images">> ELSE <<>>)
    \o (IF FringeReversed(q) THEN <<"fringe">> ELSE <<>>)
    \o (IF SlitNotPositive(q) THEN <<"slit">> ELSE <<>>)

\* the solver: the inputs are read, the checks of the front-end applied, and the
\* physics computed when no check failed
Checked(q, errs) == IF errs # <<>> THEN Failure(errs, <<>>) ELSE Physics(q)

SolveInputs(fe, q) == Checked(q, IF fe = "main" THEN MainChecks(q) ELSE AppChecks(q))

Solve(fe, p) == SolveInputs(fe, Inputs(p))

_calculate_physics(p) == Solve("main", p)

calculate_physics(p) == Solve("app", p)


(***************************************************************************)
(* Pattern synthesis and the displays (update_plot / generate_plot,        *)
(* update_output_display and the result column of the page).               *)
(***************************************************************************)
\* f"{a:.kf}": the sign and the digits, or the word "nan" or "inf"
Fmt(a, k) ==
    [word |-> IF a.c = "fin" THEN "" ELSE a.c, neg |-> a.s = 1,
     digits |-> IF a.c = "fin" THEN FixedDigits(a, k) ELSE <<>>]

\* a precondition with the threshold of the distance applied to the wavelength
DegenerateBelowEps9(res) ==
    FLt(FAbs(res.D_mm_plot), Eps9) \/ FLt(FAbs(res.lambda_mm_plot), Eps9)

\* the precondition of the synthesis: ValueError (main.py), st.error (app.py)
DegeneratePlotInputs(res) ==
    FLt(FAbs(res.D_mm_plot), Eps9) \/ FLt(FAbs(res.lambda_mm_plot), Eps15)

\* np.maximum(a, b)
FMax(a, b) == IF IsNaN(a) \/ IsNaN(b) THEN NaN ELSE IF FLt(a, b) THEN b ELSE a

\* np.sinc(alpha / np.pi)**2 after np.nan_to_num, and np.cos(beta)**2, are not
\* evaluated: at a sample of x_screen each is one of the values between 0 and 1,
\* of which these stand for all; np.cos of an argument that is not finite is NaN
SincSquared == {FZero, Dec(25, -2), Dec(1, 0)}
CosSquared(d_mm, lambda_D) ==
    IF d_mm.c # "fin" \/ IsNaN(lambda_D) THEN {NaN} ELSE {FZero, Dec(5, -1), Dec(1, 0)}

\* an interference term computed from np.cos whatever d_mm is
InterferenceAlwaysCos(res, lambda_D) == CosSquared(res.d_mm_plot, lambda_D)

\* the values of diffraction_term and of interference_term at a sample
DiffractionTerm(res) ==
    IF FLt(FAbs(res.b_slit_mm_plot), Eps9) THEN {Dec(1, 0)} ELSE SincSquared
InterferenceTerm(res, lambda_D) ==
    IF FLt(FAbs(res.d_mm_plot), Eps9) THEN {Dec(5, -1)}
    ELSE CosSquared(res.d_mm_plot, lambda_D)

\* a sample of intensity_1d with the two terms it is computed from
Sample(diffraction_term, interference_term) ==
    [diffraction_term |-> diffraction_term, interference_term |-> interference_term,
     intensity_1d |-> FMax(FMul(diffraction_term, interference_term), FZero)]

\* the intensity field: lambda_D as used, the samples, the title
FieldOf(res, lambda_D, eps) ==
    [kind     |-> "plot",
     lambda_D |-> IF FLt(FAbs(lambda_D), eps) THEN eps ELSE lambda_D,
     samples  |-> {Sample(e, i) : e \in DiffractionTerm(res),
                                  i \in InterferenceTerm(res, lambda_D)},
     title    |-> Fmt(res.wavelength_nm, 2)]

IntensityField(res) == FieldOf(res, FMul(res.lambda_mm_plot, res.D_mm_plot), Eps15)

\* what the plot area shows for a results value
PlotOf(res) ==
    IF res = None THEN [kind |-> "placeholder"]
    ELSE IF DegeneratePlotInputs(res) THEN [kind |-> "plot_error"]
    ELSE IntensityField(res)

\* a result panel that is cleared when the synthesis reports its error
PanelClearedOnPlotError(res) ==
    IF res = None \/ DegeneratePlotInputs(res) THEN [kind |-> "placeholder"]
    ELSE [kind |-> "results",
          u_cm |-> Fmt(res.u_cm, 1), v_cm |-> Fmt(res.v_cm, 1), D_cm |-> Fmt(res.D_cm, 1),
          d_prime_mm |-> Fmt(res.d_prime_mm, 3), d_mm |-> Fmt(res.d_mm, 3),
          delta_x_mm |-> Fmt(res.delta_x_mm, 3),
          wavelength_nm |-> Fmt(res.wavelength_nm, 2)]

\* what the result panel shows for a results value
PanelOf(res) ==
    IF res = None THEN [kind |-> "placeholder"]
    ELSE [kind |-> "results",
          u_cm |-> Fmt(res.u_cm, 1), v_cm |-> Fmt(res.v_cm, 1), D_cm |-> Fmt(res.D_cm, 1),
          d_prime_mm |-> Fmt(res.d_prime_mm, 3), d_mm |-> Fmt(res.d_mm, 3),
          delta_x_mm |-> Fmt(res.delta_x_mm, 3),
          wavelength_nm |-> Fmt(res.wavelength_nm, 2)]

(***************************************************************************)
(* Persistence (_load_params, _save_params).  The parameter file holds     *)
(* JSON text: a number is kept as its decimal text (sign s, digits d,      *)
(* decimal exponent x; or the word NaN or Infinity), and is a float or an  *)
(* int to Python as it is written with or without a fraction or exponent.  *)
(* A Python value is a float or a tagged value: an int, a str (lit: the    *)
(* text as float() reads it, or None for a text float() rejects) or None.  *)
(***************************************************************************)
IsFloat(v) == "m" \in DOMAIN v

\* float(v): the float, or the exception raised
IntToFloat(r) ==
    IF IsInf(r) THEN [ok |-> FALSE, exc |-> "OverflowError"]
    ELSE [ok |-> TRUE, v |-> r]

PyFloat(v) ==
    IF IsFloat(v) THEN [ok |-> TRUE, v |-> v]
    ELSE IF v.t = "int" THEN IntToFloat(RoundBig(v.s, v.d, 0))
    ELSE IF v.t = "str"
    THEN IF v.lit = None THEN [ok |-> FALSE, exc |-> "ValueError"]
         ELSE [ok |-> TRUE, v |-> LitValue(v.lit)]
    ELSE [ok |-> FALSE, exc |-> "TypeError"]

\* json.load of one value of the object
JsonValue(tok) ==
    IF tok.t = "jfloat" THEN LitValue(tok)
    ELSE IF tok.t = "jint" THEN [t |-> "int", s |-> tok.s, d |-> tok.d]
    ELSE IF tok.t = "jstr" THEN [t |-> "str", lit |-> tok.lit]
    ELSE [t |-> "none"]

\* N / D to the nearest integer, ties to even
RoundDivOf(qr, D) ==
    IF BCmp(BMulSmall(qr.r, 2), D) > 0 \/ (BMulSmall(qr.r, 2) = D /\ BBit(qr.q, 0) = 1)
    THEN BAdd(qr.q, <<1>>) ELSE qr.q

RoundDiv(N, D) == RoundDivOf(BDivMod(N, D), D)

\* |a| / 10^-k rounded to an integer, ties to even: the digits of a at k decimals,
\* k < 0 standing for whole tens, hundreds, ... of an integer a
ReprDigits(a, k) ==
    IF k >= 0 THEN FixedDigits(a, k) ELSE RoundDiv(BShl(a.m, a.e), BPow10(-k))

\* no text of fewer decimals than this reads back as a float of L bits before the
\* binary point: below 10^-k it has more than k leading zero decimals, and from
\* 2^Precision on it may end in rounded digits
ReprFrom(L) ==
    IF L > Precision THEN -((L * 30103) \div 100000)
    ELSE IF L < 0 THEN ((-L) * 30102) \div 100000
    ELSE 0

RECURSIVE ReprLoop(_, _)
ReprTry(a, k, c) == IF DecB(0, c, -k) = a THEN [d |-> c, x |-> -k] ELSE ReprLoop(a, k + 1)

\* the fewest decimals k at which the nearest k-decimal number reads back as a
ReprLoop(a, k) == ReprTry(a, k, ReprDigits(a, k))

\* the number as a text of digits d and a decimal exponent x <= 0
JsonNumber(s, r) ==
    [t |-> "jfloat", word |-> "", s |-> s,
     d |-> IF r.x > 0 THEN BMul(r.d, BPow10(r.x)) ELSE r.d,
     x |-> IF r.x > 0 THEN 0 ELSE r.x]

\* a float written with six decimals
JsonFloatSixDecimals(a) ==
    IF a.c # "fin" THEN [t |-> "jfloat", word |-> a.c, s |-> a.s, d |-> <<>>, x |-> 0]
    ELSE JsonNumber(a.s, [d |-> FixedDigits(a, 6), x |-> -6])

\* json.dump of a float: float.__repr__, the shortest decimal text that reads
\* back; NaN, Infinity and -Infinity for the values that are not finite
JsonFloat(a) ==
    IF a.c # "fin" THEN [t |-> "jfloat", word |-> a.c, s |-> a.s, d |-> <<>>, x |-> 0]
    ELSE IF a.m = <<>> THEN JsonNumber(a.s, [d |-> <<>>, x |-> 0])
    ELSE JsonNumber(a.s, ReprLoop(FAbs(a), ReprFrom(BBitLen(a.m) + a.e)))


\* the keys of the loaded object the program knows, and float(value) for each
Conv(file) == [k \in DOMAIN file.map \cap KeySet |-> PyFloat(JsonValue(file.map[k]))]
ValidKeys(conv) == {k \in DOMAIN conv : conv[k].ok}
\* except (ValueError, TypeError): the key takes its default
InvalidKeys(conv) == {k \in DOMAIN conv : ~conv[k].ok /\ conv[k].exc \in {"ValueError", "TypeError"}}
\* any other exception of float(value) leaves the loop and the method
UncaughtKeys(conv) == DOMAIN conv \ (ValidKeys(conv) \cup InvalidKeys(conv))

Raised(exc) == [raised |-> TRUE, exc |-> exc, params |-> None]
Returned(p) == [raised |-> FALSE, exc |-> "", params |-> p]

\* the loop over loaded_params.items(): the keys it sets, valid ones to the value
\* read and invalid ones to the default
Loaded(conv) ==
    [k \in ValidKeys(conv) \cup InvalidKeys(conv) |->
        IF conv[k].ok THEN conv[k].v ELSE default_params[k]]

\* _load_params of either front-end when the file exists, from what the dictionary
\* holds before the loop: self.params (main.py) or nothing (app.py)
LoadItems(before, conv) ==
    IF UncaughtKeys(conv) # {} THEN Raised("OverflowError")
    ELSE IF DOMAIN conv = {} THEN Returned(default_params)
    ELSE Returned([k \in DOMAIN before \cup DOMAIN conv |->
                     IF k \in DOMAIN conv THEN Loaded(conv)[k] ELSE before[k]])

Load(file, before) ==
    IF file.kind = "malformed" THEN Returned(default_params)
    ELSE IF file.kind = "nonobject" THEN Raised("AttributeError")
    ELSE LoadItems(before, Conv(file))

\* main.py _load_params: self.params is updated in place
MainLoad(file, params) ==
    IF file.kind = "absent" THEN Returned(params) ELSE Load(file, params)

\* app.py _load_params: the dictionary returned holds only the keys of the file
AppLoad(file) ==
    IF file.kind = "absent" THEN Returned(default_params) ELSE Load(file, EmptyDict)

\* float(params[key]) in _save_params; a missing key raises KeyError
SaveConv(params, key) ==
    IF key \in DOMAIN params THEN PyFloat(params[key]) ELSE [ok |-> FALSE, exc |-> "KeyError"]

\* the value written for a key: except (ValueError, TypeError, KeyError) gives the default
SavedValue(params, key) ==
    IF SaveConv(params, key).ok THEN SaveConv(params, key).v ELSE default_params[key]

\* _save_params: the file afterwards.  An exception other than the three named ones
\* is caught by the outer handler before the file is opened: nothing is written
SaveFile(file, params) ==
    IF \E k \in KeySet : ~SaveConv(params, k).ok /\ SaveConv(params, k).exc = "OverflowError"
    THEN file
    ELSE [kind |-> "object", map |-> [k \in KeySet |-> JsonFloat(SavedValue(params, k))]]


(***************************************************************************)
(* The two programs.  frontend is fixed for a behaviour: "main" is the     *)
(* Matplotlib window (FresnelBiprismSim), "app" one browser session of the *)
(* Streamlit page.  Both keep their parameters in the same file.           *)
(***************************************************************************)
VARIABLES
    frontend,   \* "main" or "app"
    pc,         \* "off", "run", "stale", "crashed" (an exception nobody caught), "page_error"
    file,       \* fresnel_params.json
    params,     \* self.params (main.py), st.session_state.params (app.py)
    widgets,    \* app.py: the values the number_input widgets return
    results,    \* app.py: st.session_state.results
    panel,      \* the result panel
    plot,       \* the plot area
    last,       \* history: the last call of the solver, its input and outcome
    first,      \* history: the first call of the solver, and whether a call on
                \* other values has followed it
    wrote       \* history: the last write of the file by this run

vars == <<frontend, pc, file, params, widgets, results, panel, plot, last, first, wrote>>


\* what the user types into a box or a widget in the window model; None is a text
\* float() rejects
UiTexts(key) ==
    IF key = "x1" THEN {Lit(10, 0), Lit(40, 0), Lit(-1, 0)}
    ELSE IF key = "P1" THEN {Lit(0, 0)}
    ELSE IF key = "P2" THEN {Lit(8, -1), Lit(1, 0)}
    ELSE IF key = "x5" THEN {Lit(1594, -2)}
    ELSE IF key = "slit_width" THEN {Lit(5, -2), Lit(0, 0), Word(0, "nan"), None}
    ELSE IF key = "x2" THEN {Lit(40, 0)}
    ELSE IF key = "x3" THEN {Lit(110, 0)}
    ELSE {Lit(5, 0)}

\* the parameter files a run of the window model may find
UiFiles ==
    { [kind |-> "absent"],
      [kind |-> "nonobject"],
      [kind |-> "object", map |-> [k \in {"slit_width"} |-> [t |-> "jint", s |-> 0, d |-> <<>>]]] }

\* the last solver call, recorded
Call(p, out) == [in |-> p, out |-> out]

\* the first solver call, recorded, and marked once a call reads other values
FirstCall(f, p, out) ==
    IF f = None THEN [in |-> p, out |-> out, between |-> FALSE]
    ELSE IF Inputs(p) # Inputs(f.in) THEN [f EXCEPT !.between = TRUE]
    ELSE f

\* the record of a write: whether the last solver call was a successful solve of
\* exactly the values written
Written(p, l) ==
    [solved |-> l # None /\ l.out.res # None
                /\ \A k \in KeySet : Get(l.in, k) = SavedValue(p, k)]

Placeholder == [kind |-> "placeholder"]

(********************************* main.py *********************************)
\* update_output_display(results), update_plot(results)
Show(p, out) ==
    /\ last' = Call(p, out)
    /\ first' = FirstCall(first, p, out)
    /\ panel' = PanelOf(out.res)
    /\ plot' = PlotOf(out.res)

\* a compute step whose solver keeps the failure of the call before
MainComputeSticky(p) ==
    Show(p, IF last # None /\ last.out.res = None THEN last.out ELSE _calculate_physics(p))

\* run_calculation_and_plot on the parameters p
MainCompute(p) == Show(p, _calculate_physics(p))

\* the rest of __init__ after _load_params: an exception ends the program
MainStarted(r) ==
    IF r.raised
    THEN /\ pc' = "crashed"
         /\ UNCHANGED <<params, last, first, panel, plot>>
    ELSE /\ pc' = "run"
         /\ params' = r.params
         /\ MainCompute(r.params)

\* FresnelBiprismSim.__init__: defaults, _load_params, the widgets, the first
\* run_calculation_and_plot
MainLaunch ==
    /\ frontend = "main" /\ pc = "off"
    /\ MainStarted(MainLoad(file, default_params))
    /\ UNCHANGED <<frontend, file, widgets, results, wrote>>

\* textbox_update(text, key) once float(text) has given value
TextboxValue(key, value) ==
    IF key = "slit_width" /\ FLe(value, FZero) THEN UNCHANGED params
    ELSE IF key \in {"x1", "x2", "x3"} /\ FLt(value, FZero) THEN UNCHANGED params
    ELSE params' = [params EXCEPT ![key] = value]

\* textbox_update(text, key); the texts of UiTexts read the same when formatted
\* for display
textbox_update(key, text) ==
    /\ frontend = "main" /\ pc = "run"
    /\ IF text = None THEN UNCHANGED params ELSE TextboxValue(key, LitValue(text))
    /\ UNCHANGED <<frontend, pc, file, widgets, results, panel, plot, last, first, wrote>>

\* the button "计算并绘图"
run_calculation_and_plot ==
    /\ frontend = "main" /\ pc = "run"
    /\ MainCompute(params)
    /\ UNCHANGED <<frontend, pc, file, params, widgets, results, wrote>>

\* the button "重置参数": reset_parameters, clear_plot_and_results
reset_parameters ==
    /\ frontend = "main" /\ pc = "run"
    /\ params' = default_params
    /\ plot' = Placeholder
    /\ panel' = Placeholder
    /\ UNCHANGED <<frontend, pc, file, widgets, results, last, first, wrote>>

\* close_event: _save_params; the program ends and may be started again
MainClose ==
    /\ frontend = "main" /\ pc = "run"
    /\ file' = SaveFile(file, params)
    /\ wrote' = Written(params, last)
    /\ pc' = "off"
    /\ params' = EmptyDict
    /\ last' = None /\ panel' = None /\ plot' = None
    /\ UNCHANGED <<frontend, widgets, results, first>>

(********************************* app.py **********************************)
\* min_value and max_value of the number_input of a key
WidgetMin(key, sp) ==
    IF key = "x2" THEN FAdd(Get(sp, "x1"), Dec(1, 0))
    ELSE IF key = "x3" THEN FAdd(Get(sp, "x2"), Dec(1, 0))
    ELSE Dec(IF key = "slit_width" THEN 1 ELSE IF key \in {"P1", "P2"} THEN -50 ELSE 0,
             IF key = "slit_width" THEN -3 ELSE -1)

WidgetMax(key) ==
    Dec(IF key = "x1" THEN 500
        ELSE IF key = "x2" THEN 1000
        ELSE IF key = "x3" THEN 2000
        ELSE IF key = "slit_width" THEN 5
        ELSE IF key \in {"P1", "P2"} THEN 50
        ELSE 500, -1)

InRange(key, sp, v) == ~FLt(v, WidgetMin(key, sp)) /\ ~FLt(WidgetMax(key), v)

\* st.number_input raises when its value lies outside [min_value, max_value]: the
\* script run stops at that widget, before the buttons and the displays
PageOk(sp) == \A k \in KeySet : InRange(k, sp, Get(sp, k))


\* a widget is a new one, showing its value argument, when an argument of its
\* number_input call changed; otherwise it keeps what the user entered
WidgetArgs(key, sp) == <<Get(sp, key), WidgetMin(key, sp)>>
Rebuilt(w, old, new) ==
    [k \in KeySet |-> IF WidgetArgs(k, old) = WidgetArgs(k, new) THEN w[k] ELSE Get(new, k)]

\* the rest of the first script run, after _load_params: the widgets, no button
\* pressed, the displays of the empty st.session_state.results
AppStarted(r) ==
    IF r.raised
    THEN /\ pc' = "crashed"
         /\ UNCHANGED <<params, widgets, panel, plot>>
    ELSE /\ params' = r.params
         /\ IF PageOk(r.params)
            THEN /\ pc' = "run"
                 /\ widgets' = Inputs(r.params)
                 /\ panel' = Placeholder
                 /\ plot' = Placeholder
            ELSE /\ pc' = "page_error"
                 /\ UNCHANGED <<widgets, panel, plot>>

\* the first script run of a session: st.session_state.params is empty, so the
\* file is loaded
AppStart ==
    /\ frontend = "app" /\ pc = "off"
    /\ AppStarted(AppLoad(file))
    /\ UNCHANGED <<frontend, file, results, last, first, wrote>>

\* the user changes one widget, to a number of its range (the field of the browser
\* holds no text that is not a number, nor NaN); the script reruns with no button
\* pressed
AppEdit(key, text) ==
    /\ frontend = "app" /\ pc = "run"
    /\ text # None /\ ~IsNaN(LitValue(text)) /\ InRange(key, params, LitValue(text))
    /\ widgets' = [widgets EXCEPT ![key] = LitValue(text)]
    /\ UNCHANGED <<frontend, pc, file, params, results, panel, plot, last, first, wrote>>

\* the handler of the button from the result of calculate_physics on; the script
\* run ends with the displays of st.session_state.results.  The widgets of the next
\* run are those of the new st.session_state.params: the page is "stale" when that
\* run will raise at a widget
Computed(out) ==
    /\ params' = widgets
    /\ results' = out.res
    /\ last' = Call(widgets, out)
    /\ first' = FirstCall(first, widgets, out)
    /\ file' = SaveFile(file, widgets)
    /\ wrote' = [solved |-> out.res # None]
    /\ panel' = PanelOf(out.res)
    /\ plot' = PlotOf(out.res)
    /\ pc' = IF PageOk(widgets) THEN "run" ELSE "stale"

\* the button "计算并绘图"
AppCompute ==
    /\ frontend = "app" /\ pc = "run"
    /\ Computed(calculate_physics(widgets))
    /\ UNCHANGED <<frontend, widgets>>

\* any interaction after a compute that left a widget's value out of its range: the
\* rerun raises at that widget
AppPageError ==
    /\ frontend = "app" /\ pc = "stale"
    /\ pc' = "page_error"
    /\ UNCHANGED <<frontend, file, params, widgets, results, panel, plot, last, first, wrote>>

\* the button "重置参数": st.session_state.params become the defaults and the script
\* reruns (st.rerun); st.session_state.results is not touched, so the displays of
\* the rerun are those of before
AppReset ==
    /\ frontend = "app" /\ pc = "run"
    /\ params' = default_params
    /\ widgets' = Rebuilt(widgets, params, default_params)
    /\ UNCHANGED <<frontend, pc, file, results, panel, plot, last, first, wrote>>

\* the browser session ends; its session state is gone
AppEnd ==
    /\ frontend = "app" /\ pc \in {"run", "stale", "page_error"}
    /\ pc' = "off"
    /\ params' = EmptyDict /\ widgets' = EmptyDict /\ results' = None
    /\ last' = None /\ panel' = None /\ plot' = None
    /\ UNCHANGED <<frontend, file, first, wrote>>

Init ==
    /\ frontend \in {"main", "app"}
    /\ pc = "off"
    /\ file \in UiFiles
    /\ params = EmptyDict /\ widgets = EmptyDict
    /\ results = None /\ panel = None /\ plot = None
    /\ last = None /\ first = None /\ wrote = None

Next ==
    \/ MainLaunch
    \/ \E key \in KeySet : \E text \in UiTexts(key) : textbox_update(key, text)
    \/ run_calculation_and_plot
    \/ reset_parameters
    \/ MainClose
    \/ AppStart
    \/ \E key \in KeySet : \E text \in UiTexts(key) : AppEdit(key, text)
    \/ AppCompute
    \/ AppReset
    \/ AppPageError
    \/ AppEnd

Spec == Init /\ [][Next]_vars

(***************************************************************************)
(* The solver alone: one call of _calculate_physics / calculate_physics on *)
(* a parameter set, followed by the displays of its outcome.  The          *)
(* parameter sets are the defaults with at most MaxChanged values replaced *)
(* by one of the texts of SolveTexts.                                      *)
(***************************************************************************)
MaxChanged == 3

SolveTexts(key) ==
    IF key = "x1" THEN {Lit(40, 0), Lit(0, 0), Word(0, "nan")}
    ELSE IF key = "x2" THEN {Lit(110, 0), Lit(1, -27), Lit(16, -1)}
    ELSE IF key = "x3" THEN {Lit(40, 0), Lit2(4000, 1, -11), Lit(1, -10), Lit(68, -1),
                             Word(0, "inf")}
    ELSE IF key = "P1" THEN {Lit(8, -1), Word(0, "nan")}
    ELSE IF key = "P2" THEN {Lit(1, -9), Lit(1, -10), Lit(1, 0), Lit(25, 0), Word(0, "inf")}
    ELSE IF key = "x4" THEN {Lit(1594, -2)}
    ELSE IF key = "x5" THEN {Lit(5, 0), Lit(501, -2), Lit2(5, 1, -9),
                             Word(0, "nan"), Word(0, "inf")}
    ELSE {Lit(0, 0), Lit(1, -10), Word(0, "nan")}

SolveValues == [key \in KeySet |-> {LitValue(text) : text \in SolveTexts(key)}]

\* the ways to replace the values of the keys of S
Choices(S) ==
    {f \in [S -> UNION {SolveValues[key] : key \in S}] :
        \A key \in S : f[key] \in SolveValues[key]}

SolveDomain ==
    UNION {{[key \in KeySet |-> IF key \in S THEN f[key] ELSE default_params[key]] :
                f \in Choices(S)} :
           S \in {T \in SUBSET KeySet : Cardinality(T) <= MaxChanged}}

SolveInit ==
    /\ frontend \in {"main", "app"}
    /\ pc = "input"
    /\ file = [kind |-> "absent"]
    /\ params \in SolveDomain
    /\ widgets = EmptyDict
    /\ results = None /\ panel = None /\ plot = None
    /\ last = None /\ first = None /\ wrote = None

\* the call and the displays of what it returned
SolveCall ==
    /\ pc = "input"
    /\ pc' = "solved"
    /\ Show(params, Solve(frontend, params))
    /\ UNCHANGED <<frontend, file, params, widgets, results, wrote>>

SolveNext == SolveCall

SolveSpec == SolveInit /\ [][SolveNext]_vars

(***************************************************************************)
(* Persistence alone: _save_params applied to a parameter map in memory    *)
(* and _load_params applied to the file it wrote, or _load_params applied  *)
(* to a file found.  The maps are the defaults with at most MaxTouched of  *)
(* the keys of PersistKeys removed or set to a value of MemValues; the     *)
(* files found are JSON objects of at most MaxTouched members, JSON that   *)
(* is not an object, text that is not JSON, and no file.                   *)
(***************************************************************************)
MaxTouched == 2

PersistKeys == {"x1", "P2", "slit_width"}

\* a decimal integer of 310 digits
HugeDigits == BPow10(309)

\* values a parameter map may hold: floats, and values that are not floats
MemFloats ==
    {FAdd(Dec(1, -1), Dec(2, -1)), FDiv(Dec(1, 0), Dec(3, 0)), Dec(-25, -1),
     Dec(1, 23), Dec(1, -7), NaN, Inf(1)}
MemValues ==
    MemFloats \cup
    {[t |-> "str", lit |-> None], [t |-> "str", lit |-> Lit(15, -1)], [t |-> "none"],
     [t |-> "int", s |-> 0, d |-> <<7>>], [t |-> "int", s |-> 0, d |-> HugeDigits]}

\* the values of the members of a JSON object
FileTokens ==
    {JsonFloat(Dec(15, -1)), JsonFloat(NaN),
     [t |-> "jint", s |-> 0, d |-> <<7>>], [t |-> "jint", s |-> 0, d |-> HugeDigits],
     [t |-> "jstr", lit |-> Lit(25, -1)], [t |-> "jstr", lit |-> None], [t |-> "jnull"]}

\* the functions from S to V, S of at most MaxTouched elements
Picks(S, V) == UNION {[T -> V] : T \in {U \in SUBSET S : Cardinality(U) <= MaxTouched}}

MemDomain ==
    {[k \in (KeySet \ {j \in DOMAIN f : f[j] = None}) |->
          IF k \in DOMAIN f THEN f[k] ELSE default_params[k]] :
        f \in Picks(PersistKeys, MemValues \cup {None})}

FileDomain ==
    {[kind |-> "absent"], [kind |-> "malformed"], [kind |-> "nonobject"]}
    \cup {[kind |-> "object", map |-> f] : f \in Picks(PersistKeys \cup {"note"}, FileTokens)}

PersistInit ==
    /\ frontend \in {"main", "app"}
    /\ \/ pc = "mem" /\ params \in MemDomain /\ file = [kind |-> "absent"]
       \/ pc = "file" /\ params = EmptyDict /\ file \in FileDomain
    /\ widgets = EmptyDict
    /\ results = None /\ panel = None /\ plot = None
    /\ last = None /\ first = None /\ wrote = None

\* _save_params of the map in memory; wrote keeps the map as it was
PersistSave ==
    /\ pc = "mem"
    /\ pc' = "saved"
    /\ file' = SaveFile(file, params)
    /\ wrote' = [mem |-> params]
    /\ UNCHANGED <<frontend, params, widgets, results, panel, plot, last, first>>

\* what _load_params of the front-end leaves in self.params (main.py, where
\* __init__ has put the defaults) or returns (app.py)
PersistLoaded(r) ==
    /\ pc' = IF r.raised THEN "crashed" ELSE "loaded"
    /\ params' = IF r.raised THEN params ELSE r.params

\* the program is started on the file
PersistLoad ==
    /\ pc \in {"saved", "file"}
    /\ PersistLoaded(IF frontend = "main" THEN MainLoad(file, default_params)
                     ELSE AppLoad(file))
    /\ UNCHANGED <<frontend, file, widgets, results, panel, plot, last, first, wrote>>

PersistNext == PersistSave \/ PersistLoad

PersistSpec == PersistInit /\ [][PersistNext]_vars

(***************************************************************************)
(* Properties of the solver, stated on the call a behaviour of SolveSpec   *)
(* makes: last.in is the parameter set, last.out what the solver returned, *)
(* plot what the plot area shows for it.                                   *)
(***************************************************************************)
Solved == pc = "solved"
In == Inputs(last.in)
Out == last.out

\* the four conditions on the inputs, as the data model states them
Ordered(q) == FLt(q.x1, q.x2) /\ FLt(q.x2, q.x3)
ImagesDiffer(q) == ~FEq(q.P1, q.P2)
FringeForward(q) == FLt(q.x4, q.x5)
SlitPositive(q) == FLt(FZero, q.slit_width)

ViolatedChecks(q) ==
    {i \in 1..4 : ~(IF i = 1 THEN Ordered(q) ELSE IF i = 2 THEN ImagesDiffer(q)
                    ELSE IF i = 3 THEN FringeForward(q) ELSE SlitPositive(q))}
CheckError == <<"ordering", "images", "fringe", "slit">>
Lowest(S) == CHOOSE i \in S : \A j \in S : i <= j
Reported(e) == \E i \in DOMAIN Out.errs : Out.errs[i] = e

\* |v_mm| and |D_mm| are above 1e-9
NonDegenerateDistances(q) ==
    /\ FLt(Eps9, FAbs(FMul(FSub(q.x3, q.x2), Ten)))
    /\ FLt(Eps9, FAbs(FMul(FSub(q.x3, q.x1), Ten)))

\* (d_mm * delta_x_mm / D_mm) * 1e6 from the record's d_mm, delta_x_mm and D_cm * 10
Recomputed(res) ==
    FMul(FDiv(FMul(res.d_mm, res.delta_x_mm), FMul(res.D_cm, Ten)), Dec(1, 6))

\* f"{a:.kf}" shows the digits of n, k of them decimals
Shows(a, k, n) == Fmt(a, k) = [word |-> "", neg |-> FALSE, digits |-> BFromInt(n)]

DefaultsShown(res) ==
    /\ Shows(res.u_cm, 1, 300) /\ Shows(res.v_cm, 1, 700) /\ Shows(res.D_cm, 1, 1000)
    /\ Shows(res.d_prime_mm, 3, 800) /\ Shows(res.d_mm, 3, 343)
    /\ Shows(res.delta_x_mm, 3, 1094)

StrictlyBetween(w, lo, hi) == FLt(Dec(lo, 0), w) /\ FLt(w, Dec(hi, 0))
Within(w, lo, hi) == FLe(Dec(lo, 0), w) /\ FLe(w, Dec(hi, 0))
Emitted(note) == \E i \in DOMAIN Out.notes : Out.notes[i] = note

\* C1: an input that violates two or more of the four checks gets exactly one
\* error, that of the lowest-numbered violated check, from the solver of either
\* front-end.
C1_FailFast ==
    Solved /\ Cardinality(ViolatedChecks(In)) >= 2
        => Out.errs = <<CheckError[Lowest(ViolatedChecks(In))]>>

\* C2: an input for which one of x1 < x2 < x3, P1 != P2, x5 > x4, slit_width > 0
\* is false gets a failure and no results record; with x1 == x2 or x2 == x3 the
\* failure is the ordering error.
C2_NoRecordOnFailedCheck ==
    Solved /\ ViolatedChecks(In) # {}
        => /\ Out.res = None
           /\ FEq(In.x1, In.x2) \/ FEq(In.x2, In.x3) => Reported("ordering")

\* C3 as stated: the four conditions and |v_mm|, |D_mm| above 1e-9 give a results
\* record whose wavelength_nm is the recomputation from its own fields.
C3_AsStated ==
    Solved /\ ViolatedChecks(In) = {} /\ NonDegenerateDistances(In)
        => Out.res # None /\ FEq(Out.res.wavelength_nm, Recomputed(Out.res))

\* C3: the four conditions, |P1 - P2| not below 1e-9, |v_mm| and |D_mm| above
\* 1e-9 and a fringe spacing |x5 - x4| / 10 above 1e-9 give a results record, and
\* its wavelength_nm, unless it is NaN, equals the recomputation
\* (d_mm * delta_x_mm / (D_cm * 10)) * 1e6 from its own fields.
C3_RecordAndIdentity ==
    Solved /\ ViolatedChecks(In) = {} /\ NonDegenerateDistances(In)
           /\ FLe(Eps9, FAbs(FSub(In.P1, In.P2)))
           /\ FLt(Eps9, FDiv(FAbs(FSub(In.x5, In.x4)), Ten))
        => /\ Out.res # None
           /\ IsNaN(Out.res.wavelength_nm)
                \/ FEq(Out.res.wavelength_nm, Recomputed(Out.res))

C3_Witness ==
    /\ Solved /\ last.in # default_params /\ Out.res # None
    /\ ViolatedChecks(In) = {} /\ ~IsNaN(Out.res.wavelength_nm)
    /\ Emitted("negligible_d")

\* C4 as stated: the defaults give 30.0, 70.0, 100.0, 0.800, 0.343, 1.094 and a
\* wavelength of 375.4 at one decimal.
C4_AsStated ==
    Solved /\ last.in = default_params
        => Out.res # None /\ DefaultsShown(Out.res) /\ Shows(Out.res.wavelength_nm, 1, 3754)

\* C4: the defaults give u_cm = 30.0, v_cm = 70.0, D_cm = 100.0,
\* d_prime_mm = 0.800, d_mm = 0.343, delta_x_mm = 1.094 and a wavelength_nm that
\* is 375.1 at one decimal and 375.09 at two.
C4_DefaultValues ==
    Solved /\ last.in = default_params
        => /\ Out.res # None /\ DefaultsShown(Out.res)
           /\ Shows(Out.res.wavelength_nm, 1, 3751)
           /\ Shows(Out.res.wavelength_nm, 2, 37509)

C4_Witness == Solved /\ last.in = default_params /\ Out.errs = <<>>

\* C5: a call that raises no error returns a results record; the implausible
\* warning is emitted iff wavelength_nm is not strictly between 1 and 10000, the
\* out-of-visible-range notice iff it is strictly between 1 and 10000 and not
\* within [380, 780], never both; the defaults get the notice and not the warning.
C5_Plausibility ==
    Solved /\ Out.errs = <<>>
        => /\ Out.res # None
           /\ Emitted("implausible") <=> ~StrictlyBetween(Out.res.wavelength_nm, 1, 10000)
           /\ Emitted("not_visible") <=>
                 /\ StrictlyBetween(Out.res.wavelength_nm, 1, 10000)
                 /\ ~Within(Out.res.wavelength_nm, 380, 780)
           /\ ~(Emitted("implausible") /\ Emitted("not_visible"))
           /\ last.in = default_params
                 => Emitted("not_visible") /\ ~Emitted("implausible")

C5_Witness ==
    /\ Solved /\ Out.res # None
    /\ Emitted("implausible") /\ StrictlyBetween(Out.res.wavelength_nm, 10000, 20000)

\* C6 (on the behaviours of Spec): in every run of either front-end the
\* parameter file is written only after a solve of the parameters being written
\* has succeeded: each write of the file
\* is that of a parameter set whose solve was the last call and returned a
\* results record, so no compute whose solve failed is followed by a save of the
\* failing parameters.
C6_SavedAfterSuccessfulSolve == wrote # None => wrote.solved

\* float(v) succeeds
Converts(v) == PyFloat(v).ok

\* the value a key of a loaded object has to resolve to: that of the file when it
\* is present and converts to a number, and the default otherwise
Resolved(map, k) ==
    IF k \in DOMAIN map /\ Converts(JsonValue(map[k])) THEN PyFloat(JsonValue(map[k])).v
    ELSE default_params[k]

\* C7 (on the behaviours of PersistSpec): on load of a file that holds a
\* key-to-value mapping the load does not fail, and each of the eight parameters resolves on its own: to the value of
\* the file when the key is present with a value that converts to a number, to
\* the key's default when it is absent or does not convert, whatever the other
\* keys and the unknown keys of the file are; that is the effective value the
\* solver and the widgets read.
C7_KeysResolveIndependently ==
    pc \in {"loaded", "crashed"} /\ wrote = None /\ file.kind = "object"
        => /\ pc = "loaded"
           /\ \A k \in KeySet : Get(params, k) = Resolved(file.map, k)

\* the value _save_params has to write for a key: that of the map when the key
\* is present and converts to a number, and the default otherwise
ToWrite(mem, k) ==
    IF k \in DOMAIN mem /\ Converts(mem[k]) THEN PyFloat(mem[k]).v ELSE default_params[k]

\* C8: for any parameter map in memory, keys missing or values not numbers, the
\* record _save_params writes has exactly the eight parameter keys, each with a
\* number: the value in memory when it converts to a number, the default of
\* the key otherwise; and the map in memory is as it was.
C8_SaveWritesEightNumbers ==
    pc = "saved"
        => /\ file.kind = "object" /\ DOMAIN file.map = KeySet
           /\ \A k \in KeySet :
                 file.map[k].t = "jfloat" /\ LitValue(file.map[k]) = ToWrite(wrote.mem, k)
           /\ params = wrote.mem

\* the eight values of a map are floats
AllNumeric(mem) == DOMAIN mem = KeySet /\ \A k \in KeySet : IsFloat(mem[k])

\* C9: for a parameter map in memory whose eight values are all numbers, saving
\* and then loading gives exactly the value saved for every one of the eight
\* keys, in both front-ends.
C9_RoundTrip ==
    pc \in {"loaded", "crashed"} /\ wrote # None /\ AllNumeric(wrote.mem)
        => pc = "loaded" /\ DOMAIN params = KeySet
           /\ \A k \in KeySet : params[k] = wrote.mem[k]

C9_Witness ==
    /\ pc = "loaded" /\ wrote # None /\ AllNumeric(wrote.mem) /\ params = wrote.mem
    /\ params.x1 = FDiv(Dec(1, 0), Dec(3, 0)) /\ params.P2 = Dec(1, 23)
    /\ file.map.x1.x < -15

\* C10 as stated: every successful solve is followed by an intensity field.
C10_AsStated == Solved /\ Out.res # None => plot.kind = "plot"

\* C10: a successful solve is followed by an intensity field unless the
\* record's |lambda_mm_plot| is below 1e-15, and then by the degenerate-inputs
\* error; that happens only to results that carry the implausible warning.
C10_PlotUnlessTinyWavelength ==
    Solved /\ Out.res # None
        => /\ plot.kind = IF FLt(FAbs(Out.res.lambda_mm_plot), Eps15)
                          THEN "plot_error" ELSE "plot"
           /\ plot.kind = "plot_error" => Emitted("implausible")

C10_Witness == Solved /\ Out.res # None /\ plot.kind = "plot_error"

\* |D_mm| is above 1e-9 and |wavelength_mm| above 1e-15 in the record
AboveThresholds(res) ==
    FLt(Eps9, FAbs(res.D_mm_plot)) /\ FLt(Eps15, FAbs(res.lambda_mm_plot))

\* C11: the synthesis produces an intensity field only when |D_mm| > 1e-9 and
\* |wavelength_mm| > 1e-15; a record with either magnitude at or below its
\* threshold gets the degenerate-plot-inputs error and no field.
C11_FieldOnlyAboveThresholds ==
    Solved /\ Out.res # None
        => plot.kind = IF AboveThresholds(Out.res) THEN "plot" ELSE "plot_error"

Half == Dec(5, -1)

\* C12: in an intensity field drawn for a record with |d_mm| < 1e-9 the
\* interference term is 0.5 at every sample, never NaN, and the 1D intensity of
\* the sample is 0.5 times the diffraction envelope there; when |slit_width_mm| is
\* below 1e-9 too, the intensity is 0.5 at every sample.
C12_UniformHalf ==
    Solved /\ Out.res # None /\ plot.kind = "plot" /\ FLt(FAbs(Out.res.d_mm_plot), Eps9)
        => \A s \in plot.samples :
              /\ s.interference_term = Half
              /\ s.intensity_1d = FMul(Half, s.diffraction_term)
              /\ FLt(FAbs(Out.res.b_slit_mm_plot), Eps9) => s.intensity_1d = Half

C12_Witness ==
    /\ Solved /\ Out.res # None /\ plot.kind = "plot" /\ AboveThresholds(Out.res)
    /\ FLt(FAbs(Out.res.d_mm_plot), Eps9) /\ FLt(FAbs(Out.res.b_slit_mm_plot), Eps9)
    /\ plot.samples = {Sample(Dec(1, 0), Half)}

\* the last call read the parameter values of the first call
SameAsFirst == first # None /\ last # None /\ Inputs(last.in) = Inputs(first.in)

\* a step of the running program in which the solver is called: the call recorded
\* is a new one
CallStep == pc = "run" /\ last' # None /\ last' # last

ShowsSeven(res) ==
    /\ panel.kind = "results"
    /\ panel.u_cm = Fmt(res.u_cm, 1) /\ panel.v_cm = Fmt(res.v_cm, 1)
    /\ panel.D_cm = Fmt(res.D_cm, 1)
    /\ panel.d_prime_mm = Fmt(res.d_prime_mm, 3) /\ panel.d_mm = Fmt(res.d_mm, 3)
    /\ panel.delta_x_mm = Fmt(res.delta_x_mm, 3)
    /\ panel.wavelength_nm = Fmt(res.wavelength_nm, 2)

\* C14: after a compute step in which the solve succeeded and the synthesis
\* reported degenerate plotting inputs, the result panel shows the seven derived
\* values of that solve, in either front-end.
C14_PanelSurvivesPlotError ==
    Solved /\ Out.res # None /\ plot.kind = "plot_error" => ShowsSeven(Out.res)

C14_Witness ==
    /\ Solved /\ frontend = "app" /\ Out.res # None /\ plot.kind = "plot_error"
    /\ ShowsSeven(Out.res) /\ Shows(Out.res.delta_x_mm, 3, 1)

\* C15: an input with |P1 - P2| <= 1e-9, the boundary |P1 - P2| = 1e-9 included,
\* fails with the degenerate-images error and returns no results record; check 2
\* accepts an input only if |P1 - P2| > 1e-9.
C15_ImagesStrictlyApart ==
    Solved /\ ~FLt(Eps9, FAbs(FSub(In.P1, In.P2)))
        => Out.res = None /\ (Ordered(In) => Reported("images"))

\* C16: a results record is returned only if |v_mm| > 1e-9, |D_mm| > 1e-9 and
\* delta_x_mm > 1e-9: no returned record has a v, a D or a fringe spacing at or
\* below 1e-9.
C16_GuardsStrict ==
    Solved /\ Out.res # None
        => /\ FLt(Eps9, FAbs(FMul(Out.res.v_cm, Ten)))
           /\ FLt(Eps9, FAbs(Out.res.D_mm_plot))
           /\ FLt(Eps9, Out.res.delta_x_mm)

\* d_mm = d_prime_mm * u_mm / v_mm of an input
SeparationOf(q) ==
    FMul(FAbs(FSub(q.P2, q.P1)),
         FDiv(FMul(FSub(q.x2, q.x1), Ten), FMul(FSub(q.x3, q.x2), Ten)))

ResultFields ==
    {"u_cm", "v_cm", "D_cm", "d_prime_mm", "d_mm", "delta_x_mm", "wavelength_nm",
     "D_mm_plot", "d_mm_plot", "b_slit_mm_plot", "lambda_mm_plot"}

\* C17: for an input that passes the four checks and the guards on v, D and the
\* fringe spacing, |d_mm| < 1e-9 is a warning and no error: the warning is
\* emitted (and only then), and the solver returns a complete results record
\* with that d_mm and the wavelength d_mm * delta_x_mm / D_mm derived from it.
C17_NegligibleDIsWarning ==
    Solved /\ Out.errs = <<>>
        => /\ Out.res # None /\ DOMAIN Out.res = ResultFields
           /\ Out.res.d_mm = SeparationOf(In)
           /\ Emitted("negligible_d") <=> FLt(FAbs(SeparationOf(In)), Eps9)
           /\ Out.res.lambda_mm_plot
                 = FDiv(FMul(SeparationOf(In), Out.res.delta_x_mm), Out.res.D_mm_plot)

C17_Witness ==
    /\ Solved /\ frontend = "app" /\ Out.errs = <<>> /\ Out.res # None
    /\ FLt(FAbs(SeparationOf(In)), Eps9) /\ FLt(FZero, SeparationOf(In))
    /\ Emitted("negligible_d") /\ FLt(FZero, Out.res.wavelength_nm)

(***************************************************************************)
(* Properties of the two programs, stated on the behaviours of Spec.       *)
(***************************************************************************)
\* C18: whatever the parameter file holds (no file, a JSON object, JSON that is
\* not an object), _load_params returns normally, so the program is never ended
\* by an exception of the load, and while it runs each of the eight parameters
\* has a numeric effective value.
C18_LoadNeverAborts ==
    /\ pc # "crashed"
    /\ pc = "run" => \A k \in KeySet : IsFloat(Get(params, k))

\* a submit the text box has to reject: a text that is not a number, a
\* slit_width <= 0, a negative x1, x2 or x3
Rejected(key, text) ==
    \/ text = None
    \/ key = "slit_width" /\ FLe(LitValue(text), FZero)
    \/ key \in {"x1", "x2", "x3"} /\ FLt(LitValue(text), FZero)

\* C19: in the Matplotlib front-end a rejected text-box submit leaves the
\* parameter map unchanged and an accepted one changes the submitted key only;
\* so, started from the defaults (no parameter file), after any submits and
\* resets the stored slit_width is > 0 and the stored x1, x2, x3 are >= 0.
C19_TextboxKeepsRanges ==
    /\ [][\A key \in KeySet : \A text \in UiTexts(key) :
            textbox_update(key, text)
                => /\ Rejected(key, text) => params' = params
                   /\ \A k \in KeySet \ {key} : params'[k] = params[k]]_vars
    /\ [](frontend = "main" /\ pc = "run" /\ file.kind = "absent"
            => /\ FLt(FZero, params.slit_width)
               /\ FLe(FZero, params.x1) /\ FLe(FZero, params.x2) /\ FLe(FZero, params.x3))

\* C20: in both front-ends the reset operation leaves the current parameters
\* equal to the defaults and no result of the parameters of before on display:
\* the result panel and the plot show the placeholder state.
C20_ResetClearsDisplays ==
    [][reset_parameters \/ AppReset
          => params' = default_params /\ panel' = Placeholder /\ plot' = Placeholder]_vars

\* C21: every results record the solver returns is well-formed: u_cm, v_cm,
\* D_cm, d_prime_mm and delta_x_mm are strictly positive, d_mm and wavelength_nm
\* are not negative, D_cm = u_cm + v_cm, and the plotting fields agree with the
\* reported ones: D_mm_plot = 10 * D_cm, d_mm_plot = d_mm,
\* lambda_mm_plot * 1e6 = wavelength_nm, b_slit_mm_plot = the input slit_width,
\* which is > 0.
C21_WellFormedRecord ==
    Solved /\ Out.res # None
        => /\ FLt(FZero, Out.res.u_cm) /\ FLt(FZero, Out.res.v_cm)
           /\ FLt(FZero, Out.res.D_cm) /\ FLt(FZero, Out.res.d_prime_mm)
           /\ FLt(FZero, Out.res.delta_x_mm)
           /\ FLe(FZero, Out.res.d_mm) /\ FLe(FZero, Out.res.wavelength_nm)
           /\ FEq(Out.res.D_cm, FAdd(Out.res.u_cm, Out.res.v_cm))
           /\ FEq(Out.res.D_mm_plot, FMul(Ten, Out.res.D_cm))
           /\ FEq(Out.res.d_mm_plot, Out.res.d_mm)
           /\ FEq(FMul(Out.res.lambda_mm_plot, Dec(1, 6)), Out.res.wavelength_nm)
           /\ FEq(Out.res.b_slit_mm_plot, In.slit_width)
           /\ FLt(FZero, Out.res.b_slit_mm_plot)


=============================================================================
